---- MODULE Spec2Model ----
(***************************************************************************)
(* Payment control plane of subscription-platform.                         *)
(*                                                                         *)
(* Part 1: the payment orchestrator (cmd/payment-orchestrator): the charge *)
(* path with idempotent replay and primary -> secondary failover, and the  *)
(* refund path, against the two mock processors.                           *)
(* Part 2: the retry queue of the MIT scheduler (cmd/mit-scheduler).       *)
(***************************************************************************)
EXTENDS Integers, FiniteSets, Sequences, TLC

(***************************************************************************)
(* Bounds                                                                  *)
(***************************************************************************)
MaxReqs == 3
MaxAmount == 1
MaxRefunds == 1
MaxRacing == 2
MaxSequential == 1
MaxSubs == 1
MaxDays == 3

Reqs == 1..MaxReqs
Subs == 1..MaxSubs
\* the dates the clock passes through
Days == 1..MaxDays
\* amounts a caller may put in a charge request (the handler validates none)
ChargeAmounts == 0..MaxAmount
\* amounts a caller may put in a refund request
RefundAmounts == (0 - 1)..(MaxAmount + 1)
\* idempotency keys a caller may supply; "" = no key supplied
ClientKeys == {"", "k1"}

Procs == {"processor_a", "processor_b"}

None == [none |-> TRUE]

\* processor-side transaction id: "txn_a_<id>" / "txn_b_<id>"; proc "" is the
\* empty string of the Go struct
NoPtx == [proc |-> "", n |-> 0]

PaymentMethodIds == {"pm_net", "pm_missing"}

\* payment_methods rows: pm_test as the seeded fixtures (all three tokens),
\* pm_net with a network token only, pm_dual with the two processor tokens,
\* pm_a with one, pm_empty with empty strings (chk_token_available tests
\* IS NOT NULL only); pm_missing has no row
PaymentMethods ==
    [pm \in {"pm_net", "pm_test", "pm_dual", "pm_a", "pm_empty"} |->
        [NetworkToken |-> IF pm \in {"pm_net", "pm_test"} THEN "ntk_x" ELSE "",
         ProcessorAToken |-> IF pm \in {"pm_test", "pm_dual", "pm_a"} THEN "tok_a" ELSE "",
         ProcessorBToken |-> IF pm \in {"pm_test", "pm_dual"} THEN "tok_b" ELSE ""]]

VARIABLES
    pc,            \* position of each charge handler invocation
    req,           \* decoded ChargeRequest of each invocation
    route,         \* routingDecision of each invocation
    result,        \* *ChargeResponse held by each invocation
    attempts,      \* chargeWithProcessor calls of each invocation, with outcome
    response,      \* HTTP response written by each invocation
    arrivedAfter,  \* invocations already answered when this one arrived
    transactions,  \* rows of the transactions table
    cache,         \* redis: idempotency:<key> -> stored response
    healthy,       \* ProcessorClient.healthy of processorA / processorB
    procCharges,   \* charges the processors accepted (their side of the ledger)
    sent,          \* ProcessorChargeRequests handed to ProcessorClient.Charge
    events,        \* events emitted to the hub
    chkAmountPositive, \* whether the store carries chk_amount_positive
    refundCalls,   \* refund requests sent to processors
    refundLog,     \* one record per handled refund request
    nRefunds,      \* number of refund requests handled
    retryQueue,    \* rows of retry_queue, in order of insertion (id = position)
    subStatus,     \* subscriptions.status of each subscription
    batchSubs,     \* subscriptions a running batch fetched and has not billed yet
    batchRetries,  \* retry entries the running tick fetched and has not processed
    processing,    \* entry each ProcessRetry caller holds between mark and update
    tickCharges,   \* charges the running tick has issued, per subscription
    manualResponse, \* HTTP status of the last RetryNow / CancelRetry answer
    jobs,          \* number of rows of scheduler_jobs
    openJobs,      \* rows of scheduler_jobs whose ProcessJob has returned and
                   \* whose status is pending or running, counted per status
    running,       \* Scheduler.running
    stopCh,        \* Scheduler.stopCh: open or closed
    loop,          \* the goroutine of Scheduler.run: new, select or returned
    stopCall,      \* the call of Scheduler.Stop: none, waiting or returned
    pendingUniqueIndex, \* whether retry_queue carries the partial unique index
                   \* (subscription_id) WHERE status = 'pending'
    rules,         \* BPASService.rules
    mu,            \* BPASService.mu: the readers holding it, and whether a
                   \* writer holds it
    eval,          \* the evaluateRouting request at work
    today,         \* the date, as the days since the start
    billing        \* the ChargeSubscription call of the subscription service
                   \* that led to each charge request (None for a request
                   \* of another caller)

orchVars == <<pc, req, route, result, attempts, response, arrivedAfter,
              transactions, cache, healthy, procCharges, events,
              chkAmountPositive, sent, refundCalls, refundLog, nRefunds>>

loopVars == <<running, stopCh, loop, stopCall>>

retryVars == <<retryQueue, subStatus, batchSubs, batchRetries, processing,
               tickCharges, manualResponse, pendingUniqueIndex, jobs, openJobs, loopVars>>

ruleVars == <<rules, mu, eval>>

billVars == <<today, billing>>

vars == <<orchVars, retryVars, ruleVars, billVars>>

(***************************************************************************)
(* Pure helpers of the orchestrator                                        *)
(***************************************************************************)

\* uuid.New() for a request without key
GenKey(r) == "uuid_" \o ToString(r)

MapErrorToUserMessage(errorCode) ==
    CASE errorCode = "CARD_DECLINED" -> "Your card was declined."
      [] errorCode = "INSUFFICIENT_FUNDS" -> "Insufficient funds."
      [] errorCode = "CARD_EXPIRED" -> "Your card has expired."
      [] errorCode = "NETWORK_ERROR" -> "Network error."
      [] errorCode = "PROCESSOR_UNAVAILABLE" -> "Payment system temporarily unavailable."
      [] errorCode = "FRAUD_SUSPECTED" -> "Payment declined for security reasons."
      [] OTHER -> "Payment could not be processed."

GetStatus(success) == IF success THEN "success" ELSE "failed"

\* A selection that prefers the processor's own token to the network token
\* (variant of SelectToken).
SelectTokenProcessorFirst(pm, processor) ==
    IF processor = "processor_a" /\ pm.ProcessorAToken # "" THEN pm.ProcessorAToken
    ELSE IF processor = "processor_b" /\ pm.ProcessorBToken # "" THEN pm.ProcessorBToken
    ELSE IF pm.NetworkToken # "" THEN pm.NetworkToken
    ELSE IF pm.ProcessorAToken # "" THEN pm.ProcessorAToken
    ELSE pm.ProcessorBToken

\* selectToken: the network token, else the processor's own token, else any.
SelectToken(pm, processor) ==
    IF pm.NetworkToken # "" THEN pm.NetworkToken
    ELSE IF processor = "processor_a" /\ pm.ProcessorAToken # "" THEN pm.ProcessorAToken
    ELSE IF processor = "processor_b" /\ pm.ProcessorBToken # "" THEN pm.ProcessorBToken
    ELSE IF pm.ProcessorAToken # "" THEN pm.ProcessorAToken
    ELSE IF pm.ProcessorBToken # "" THEN pm.ProcessorBToken
    ELSE ""

\* What the BPAS call can give the orchestrator: a transport error, or the
\* EvaluationResponse of /bpas/evaluate naming a target processor.
BpasOutcomes == {"neterr", "target_a", "target_b"}

\* A client that reads the engine's target_processor as the primary and
\* finds no secondary in the answer (variant of GetRoutingDecision).
GetRoutingDecisionFromTarget(bpas) ==
    IF bpas = "neterr"
    THEN [PrimaryProcessor |-> "processor_a", SecondaryProcessor |-> "processor_b"]
    ELSE [PrimaryProcessor |-> IF bpas = "target_a" THEN "processor_a" ELSE "processor_b",
          SecondaryProcessor |-> ""]

\* BPASClient.GetRoutingDecision: on a transport error the default decision;
\* otherwise the body decoded into RoutingDecision.  The service answers with
\* the field target_processor, the client reads primary_processor and
\* secondary_processor, so both decode to "".
GetRoutingDecision(bpas) ==
    IF bpas = "neterr"
    THEN [PrimaryProcessor |-> "processor_a", SecondaryProcessor |-> "processor_b"]
    ELSE [PrimaryProcessor |-> "", SecondaryProcessor |-> ""]

\* processCharge, routing part: defaults for an empty decision
RoutingFor(bpas) ==
    LET d0 == GetRoutingDecision(bpas)
        d1 == IF d0.PrimaryProcessor = ""
              THEN [PrimaryProcessor |-> "processor_a", SecondaryProcessor |-> "processor_b"]
              ELSE d0
        d2 == IF d1.SecondaryProcessor = ""
              THEN [d1 EXCEPT !.SecondaryProcessor = "processor_b"]
              ELSE d1
    IN d2

(***************************************************************************)
(* The mock processors, as the orchestrator's ProcessorClient sees them    *)
(***************************************************************************)

\* Answers /charge can give for a request with this amount and token:
\* "ok" = 200 success, "decline" = 402 with an error code, "httpNNN" = that
\* status, "neterr" = no answer (connection error or client timeout).
\* A request without amount or token is answered 400 before anything else.
\* http503 stands for the statuses 503, 408 and 429, which the client
\* treats alike.
ChargeOutcomes(p, amount, token) ==
    IF amount <= 0 \/ token = ""
    THEN {"http400", "neterr"}
    ELSE IF p = "processor_a"
         THEN {"ok", "decline", "http503", "neterr"}
         ELSE {"ok", "decline", "http422", "http503", "neterr"}

ChargeAnswers == {"ok", "decline", "http400", "http422", "http503", "neterr"}

\* A client that treats a 402 like the other non-200 statuses (variant of
\* ChargeReturnsError).
ChargeReturnsErrorOnDecline(out) == out # "ok"

\* ProcessorClient.Charge returns an error (and marks the client unhealthy)
\* for a failed request and for every status other than 200 and 402.
ChargeReturnsError(out) == out \notin {"ok", "decline"}

\* error_code of a 402 body
DeclineCode == "CARD_DECLINED"

\* ProcessorChargeResponse decoded from a 200 / 402 body; n is the number of
\* the charge at the processor (its uuid)
ProcessorChargeResponse(p, out, n) ==
    IF out = "ok"
    THEN [Success |-> TRUE, TransactionID |-> [proc |-> p, n |-> n], ErrorCode |-> ""]
    ELSE [Success |-> FALSE, TransactionID |-> NoPtx, ErrorCode |-> DeclineCode]

(***************************************************************************)
(* Store and cache                                                         *)
(***************************************************************************)

\* BillingHandler.ChargeSubscription: the idempotency key of a subscription
\* charge, "sub_<id>_<date of the call>"
IdempotencyKey(s, day) == "sub_" \o ToString(s) \o "_day" \o ToString(day)

AllKeys ==
    (ClientKeys \ {""}) \cup {GenKey(r) : r \in Reqs}
    \cup {IdempotencyKey(s, d) : s \in Subs, d \in Days}

\* GetTransactionByIdempotencyKey
RowsByKey(k) == {t \in transactions : t.idempotency_key = k}

\* GetTransaction
RowsById(id) == {t \in transactions : t.id = id}

\* checkIdempotency: the cached response, else one rebuilt from the row
\* stored under the key, else None
CheckIdempotency(k) ==
    IF cache[k] # None THEN cache[k]
    ELSE IF RowsByKey(k) # {}
         THEN LET t == CHOOSE x \in RowsByKey(k) : TRUE
              IN [success |-> (t.status = "success"),
                  transaction_id |-> t.id,
                  processor_used |-> t.processor_used,
                  amount |-> t.amount,
                  user_message |-> t.user_error_message,
                  error_code |-> t.error_code]
         ELSE None

\* DB.CreateTransaction: INSERT ... ON CONFLICT (idempotency_key) DO NOTHING.
\* The statement names no transaction_type, so the column takes its default
\* 'charge'.  A row with amount <= 0 is rejected where chk_amount_positive is
\* in force (the caller only logs the error).
CreateTransaction(t) ==
    IF RowsByKey(t.idempotency_key) # {} THEN transactions
    ELSE IF chkAmountPositive /\ t.amount <= 0 THEN transactions
    ELSE transactions \cup {[t EXCEPT !.transaction_type = "charge"]}

(***************************************************************************)
(* processCharge                                                           *)
(***************************************************************************)

\* A failover event with its processors exchanged (variant of FailoverEvent).
FailoverEventSwapped(r, from, to) ==
    [type |-> "failover_triggered", transaction_id |-> r, from |-> to, to |-> from]

\* the event failover_triggered of EmitFailoverTriggered
FailoverEvent(r, from, to) ==
    [type |-> "failover_triggered", transaction_id |-> r, from |-> from, to |-> to]

\* chargeWithProcessor's ChargeResponse for a decoded processor answer
ChargeResponseOf(p, amount, presp) ==
    [Success |-> presp.Success,
     TransactionID |-> presp.TransactionID,
     ProcessorUsed |-> p,
     Amount |-> amount,
     UserMessage |-> MapErrorToUserMessage(presp.ErrorCode),
     ErrorCode |-> presp.ErrorCode]

\* the synthesized answer when both processors failed; its TransactionID is
\* the server transaction id
ProcessorsUnavailable(r, amount) ==
    [Success |-> FALSE,
     TransactionID |-> [proc |-> "server", n |-> r],
     ProcessorUsed |-> "none",
     Amount |-> amount,
     UserMessage |-> "Payment processing temporarily unavailable.",
     ErrorCode |-> "PROCESSORS_UNAVAILABLE"]

\* the body written to the caller: result with the server transaction id
BodyOf(r, res) ==
    [success |-> res.Success,
     transaction_id |-> r,
     processor_used |-> res.ProcessorUsed,
     amount |-> res.Amount,
     user_message |-> res.UserMessage,
     error_code |-> res.ErrorCode]

\* the Transaction built from the request and the result
TransactionOf(r, rq, res) ==
    [id |-> r,
     processor_used |-> res.ProcessorUsed,
     amount |-> rq.amount,
     status |-> GetStatus(res.Success),
     transaction_type |-> "",
     idempotency_key |-> rq.key,
     processor_transaction_id |-> res.TransactionID,
     original_transaction_id |-> 0,
     error_code |-> res.ErrorCode,
     user_error_message |-> res.UserMessage]

\* Lines 32-99: decode, key, server transaction id, idempotency check,
\* routing decision, payment method load.
ChargeBegin(r, k, a, pm, bpas) ==
    /\ pc[r] = "idle"
    /\ LET key == IF k = "" THEN GenKey(r) ELSE k
           cached == CheckIdempotency(key)
       IN /\ req' = [req EXCEPT ![r] = [key |-> key, amount |-> a, pm |-> pm]]
          /\ arrivedAfter' = [arrivedAfter EXCEPT ![r] = {q \in Reqs : pc[q] = "done"}]
          /\ IF cached # None
             THEN /\ response' = [response EXCEPT ![r] =
                                    [status |-> 200, replay |-> TRUE, body |-> cached]]
                  /\ pc' = [pc EXCEPT ![r] = "done"]
                  /\ UNCHANGED route
             ELSE IF pm \notin DOMAIN PaymentMethods
             THEN /\ response' = [response EXCEPT ![r] =
                                    [status |-> 404, replay |-> FALSE, body |-> None]]
                  /\ pc' = [pc EXCEPT ![r] = "done"]
                  /\ route' = [route EXCEPT ![r] = RoutingFor(bpas)]
             ELSE /\ route' = [route EXCEPT ![r] = RoutingFor(bpas)]
                  /\ pc' = [pc EXCEPT ![r] = "primary"]
                  /\ UNCHANGED response
    /\ UNCHANGED <<result, attempts, transactions, cache, healthy,
                   procCharges, events, chkAmountPositive, sent, refundCalls, refundLog,
                   nRefunds, retryVars, ruleVars, billVars>>

\* chargeWithProcessor(p) as called by request r with processor answer out:
\* the health check, the call, markUnhealthy on error.  Gives the new health
\* map, the new processor ledger, the attempt record and the result (None =
\* an error was returned).  An attempt with outcome "unhealthy" is one that
\* returned at the health check, without a call to the processor.
ChargeWithProcessor(r, p, out) ==
    IF p \notin Procs
    THEN [healthy |-> healthy, procCharges |-> procCharges, called |-> {},
          sent |-> {}, res |-> None]
    ELSE IF ~healthy[p]
    THEN [healthy |-> healthy, procCharges |-> procCharges,
          called |-> {[proc |-> p, out |-> "unhealthy"]}, sent |-> {}, res |-> None]
    ELSE [healthy |-> IF ChargeReturnsError(out)
                      THEN [healthy EXCEPT ![p] = FALSE] ELSE healthy,
          procCharges |-> IF out = "ok"
                          THEN procCharges \cup {[proc |-> p, key |-> req[r].key, req |-> r]}
                          ELSE procCharges,
          called |-> {[proc |-> p, out |-> out]},
          sent |-> {[req |-> r, proc |-> p,
                     token |-> SelectToken(PaymentMethods[req[r].pm], p)]},
          res |-> IF ChargeReturnsError(out) THEN None
                  ELSE ChargeResponseOf(p, req[r].amount,
                                        ProcessorChargeResponse(p, out, r))]

\* Lines 101-112: the primary attempt; on an error the failover event.
PrimaryAttempt(r, out) ==
    /\ pc[r] = "primary"
    /\ LET p == route[r].PrimaryProcessor
           token == SelectToken(PaymentMethods[req[r].pm], p)
       IN /\ IF healthy[p] THEN out \in ChargeOutcomes(p, req[r].amount, token)
                          ELSE out = "ok"
          /\ LET c == ChargeWithProcessor(r, p, out)
             IN /\ healthy' = c.healthy
                /\ procCharges' = c.procCharges
                /\ sent' = sent \cup c.sent
                /\ attempts' = [attempts EXCEPT ![r] = @ \cup c.called]
                /\ IF c.res = None
                   THEN /\ events' = events \cup
                               {FailoverEvent(r, p, route[r].SecondaryProcessor)}
                        /\ pc' = [pc EXCEPT ![r] = "secondary"]
                        /\ UNCHANGED result
                   ELSE /\ result' = [result EXCEPT ![r] = c.res]
                        /\ pc' = [pc EXCEPT ![r] = "persist"]
                        /\ UNCHANGED events
    /\ UNCHANGED <<req, route, response, arrivedAfter, transactions,
                   cache, chkAmountPositive, refundCalls, refundLog, nRefunds, retryVars, ruleVars, billVars>>

\* Lines 114-129: the secondary attempt.
SecondaryAttempt(r, out) ==
    /\ pc[r] = "secondary"
    /\ LET p == route[r].SecondaryProcessor
           token == SelectToken(PaymentMethods[req[r].pm], p)
       IN /\ IF healthy[p] THEN out \in ChargeOutcomes(p, req[r].amount, token)
                          ELSE out = "ok"
          /\ LET c == ChargeWithProcessor(r, p, out)
             IN /\ healthy' = c.healthy
                /\ procCharges' = c.procCharges
                /\ sent' = sent \cup c.sent
                /\ attempts' = [attempts EXCEPT ![r] = @ \cup c.called]
                /\ result' = [result EXCEPT ![r] =
                                 IF c.res = None
                                 THEN ProcessorsUnavailable(r, req[r].amount)
                                 ELSE c.res]
                /\ pc' = [pc EXCEPT ![r] = "persist"]
    /\ UNCHANGED <<req, route, response, arrivedAfter, transactions, cache, events,
                   chkAmountPositive, refundCalls, refundLog, nRefunds, retryVars, ruleVars, billVars>>

\* Lines 132-154: store the transaction.
Persist(r) ==
    /\ pc[r] = "persist"
    /\ transactions' = CreateTransaction(TransactionOf(r, req[r], result[r]))
    /\ pc' = [pc EXCEPT ![r] = "cache"]
    /\ UNCHANGED <<req, route, result, attempts, response, arrivedAfter,
                   cache, healthy, procCharges, events, chkAmountPositive, sent,
                   refundCalls, refundLog, nRefunds, retryVars, ruleVars, billVars>>

\* Lines 156-184: cache the result under the key, answer the caller.
CacheAndRespond(r) ==
    /\ pc[r] = "cache"
    /\ cache' = [cache EXCEPT ![req[r].key] = BodyOf(r, result[r])]
    /\ response' = [response EXCEPT ![r] =
                       [status |-> IF result[r].Success THEN 201 ELSE 402,
                        replay |-> FALSE,
                        body |-> BodyOf(r, result[r])]]
    /\ pc' = [pc EXCEPT ![r] = "done"]
    /\ UNCHANGED <<req, route, result, attempts, arrivedAfter,
                   transactions, healthy, procCharges, events, chkAmountPositive, sent,
                   refundCalls, refundLog, nRefunds, retryVars, ruleVars, billVars>>

\* The 24 h TTL of an idempotency entry runs out.
CacheExpire(k) ==
    /\ cache[k] # None
    /\ cache' = [cache EXCEPT ![k] = None]
    /\ UNCHANGED <<pc, req, route, result, attempts, response,
                   arrivedAfter, transactions, healthy, procCharges, events,
                   chkAmountPositive, sent, refundCalls, refundLog, nRefunds, retryVars, ruleVars, billVars>>

\* healthCheckLoop: every 30 s the probe sets the bit from GET /health.
HealthProbe(p, up) ==
    /\ healthy[p] # up
    /\ healthy' = [healthy EXCEPT ![p] = up]
    /\ UNCHANGED <<pc, req, route, result, attempts, response,
                   arrivedAfter, transactions, cache, procCharges, events,
                   chkAmountPositive, sent, refundCalls, refundLog, nRefunds, retryVars, ruleVars, billVars>>

(***************************************************************************)
(* processRefund                                                           *)
(***************************************************************************)

\* Answers /refund of processor p can give for this original id and amount:
\* 400 (plain text) for a missing id or an amount <= 0, 404 (JSON) for an id
\* of another processor, else 200 or 422 (JSON); "neterr" = no answer.
RefundOutcomes(p, ptx, amount) ==
    {"neterr"} \cup
    (IF ptx = NoPtx \/ amount <= 0 THEN {"http400"}
     ELSE IF ptx.proc # p THEN {"http404"}
     ELSE {"ok", "http422"})

\* ProcessorClient.Refund returns an error for a failed request and for a
\* body that is not JSON; the status code is not looked at.
RefundReturnsError(out) == out \in {"neterr", "http400"}

\* Line 43: the amount validation of a refund request
RefundAmountRejected(amount, original) == amount > original.amount

\* A router that picks the processor the original was not charged on
\* (variant of RefundProcessor).
RefundProcessorOther(original) ==
    IF original.processor_used = "processor_a" THEN "processor_b" ELSE "processor_a"

\* Lines 48-58: the processor a refund is routed to
RefundProcessor(original) == original.processor_used

\* "refund_" + uuid.New() of the n-th refund request
RefundKey(n) == "refund_" \o ToString(n)

\* Lines 81-92: the refund Transaction
RefundTransaction(n, txid, amount, original) ==
    [id |-> MaxReqs + n,
     processor_used |-> original.processor_used,
     amount |-> 0 - amount,
     status |-> "refunded",
     transaction_type |-> "refund",
     idempotency_key |-> RefundKey(n),
     processor_transaction_id |-> NoPtx,
     original_transaction_id |-> txid,
     error_code |-> "",
     user_error_message |-> ""]

\* One refund request, start to answer.  out is the processor's answer, or
\* "nocall" when the handler answers before calling a processor.
ProcessRefund(txid, amount, out) ==
    /\ nRefunds < MaxRefunds
    /\ nRefunds' = nRefunds + 1
    /\ LET n == nRefunds + 1
           rows == RowsById(txid)
           Answer(status, success, proc) ==
               [n |-> n, transaction_id |-> txid, amount |-> amount,
                status |-> status, success |-> success, processor_used |-> proc,
                out |-> out]
       IN IF rows = {}
          THEN /\ out = "nocall"
               /\ refundLog' = refundLog \cup {Answer(404, FALSE, "")}
               /\ UNCHANGED <<refundCalls, transactions>>
          ELSE LET t == CHOOSE x \in rows : TRUE
                   p == RefundProcessor(t)
               IN IF RefundAmountRejected(amount, t)
                  THEN /\ out = "nocall"
                       /\ refundLog' = refundLog \cup {Answer(400, FALSE, "")}
                       /\ UNCHANGED <<refundCalls, transactions>>
                  ELSE IF p \notin Procs
                  THEN /\ out = "nocall"
                       /\ refundLog' = refundLog \cup {Answer(500, FALSE, "")}
                       /\ UNCHANGED <<refundCalls, transactions>>
                  ELSE IF t.processor_transaction_id = NoPtx
                  THEN /\ out = "nocall"
                       /\ refundLog' = refundLog \cup {Answer(422, FALSE, "")}
                       /\ UNCHANGED <<refundCalls, transactions>>
                  ELSE /\ out \in RefundOutcomes(p, t.processor_transaction_id, amount)
                       /\ refundCalls' = refundCalls \cup
                              {[n |-> n, proc |-> p, transaction_id |-> txid,
                                original |-> t.processor_transaction_id,
                                amount |-> amount, out |-> out]}
                       /\ IF RefundReturnsError(out)
                          THEN /\ refundLog' = refundLog \cup {Answer(500, FALSE, "")}
                               /\ UNCHANGED transactions
                          ELSE /\ transactions' =
                                      CreateTransaction(RefundTransaction(n, txid, amount, t))
                               /\ refundLog' = refundLog \cup
                                      {Answer(200, out = "ok", t.processor_used)}
    /\ UNCHANGED <<pc, req, route, result, attempts, response,
                   arrivedAfter, cache, healthy, procCharges, events,
                   chkAmountPositive, sent, retryVars, ruleVars, billVars>>

(***************************************************************************)
(* MIT scheduler: billing jobs and the retry queue                         *)
(***************************************************************************)

MaxEntries == 2
MaxJobs == 3

EntryIds == 1..MaxEntries

\* DefaultRetryPolicy().MaxAttempts
PolicyMaxAttempts == 3

\* the callers of ExecuteBatch and of ProcessRetry; each runs one at a time
BatchSources == {"tick", "manual"}
RetrySources == {"tick", "retry_now"}

\* error codes a failed charge of a subscription can carry
ErrorCodes == {"insufficient_funds", "expired_card"}

\* results of ChargeSubscription as the executor sees them
JobOutcomes == {"ok"} \cup ErrorCodes

HardDeclines ==
    {"card_declined", "invalid_card", "expired_card", "card_not_supported",
     "invalid_account", "currency_not_supported", "fraud_detected", "stolen_card",
     "lost_card", "pickup_card", "invalid_amount", "do_not_honor",
     "account_closed", "insufficient_permission"}

\* ClassifyError: the hard codes, everything else soft
ClassifyError(errorCode) == IF errorCode \in HardDeclines THEN "hard" ELSE "soft"

\* DefaultRetryPolicy().RetryIntervals, in hours
RetryIntervals == <<1, 24, 72>>

GetRetryIntervalFirst(attempt) == RetryIntervals[1]

\* RetryPolicy.GetRetryInterval
GetRetryInterval(attempt) ==
    IF attempt <= 0 THEN RetryIntervals[1]
    ELSE IF attempt > Len(RetryIntervals) THEN RetryIntervals[Len(RetryIntervals)]
    ELSE RetryIntervals[attempt]

\* RetryPolicy.CalculateNextRetry: time.Now() plus the interval.  Both callers
\* pass the attempt they are writing to the entry, so the time is kept as
\* "hours after the moment the entry reached attempt since_attempt".
CalculateNextRetry(attempt) ==
    [since_attempt |-> attempt, hours |-> GetRetryInterval(attempt)]

ActiveStatuses == {"pending", "processing"}

\* ids of the entries of subscription s with a status in sts
EntriesOf(s, sts) ==
    {i \in DOMAIN retryQueue :
        retryQueue[i].subscription_id = s /\ retryQueue[i].status \in sts}

\* GetActiveRetryForSubscription: the pending entry created last, 0 if none
GetActiveRetryForSubscription(s) ==
    IF EntriesOf(s, {"pending"}) = {} THEN 0
    ELSE CHOOSE i \in EntriesOf(s, {"pending"}) :
            \A j \in EntriesOf(s, {"pending"}) : j <= i

\* DB.CreateRetryEntry: INSERT ... ON CONFLICT (subscription_id) WHERE
\* status = 'pending' DO UPDATE SET attempt = retry_queue.attempt.  Without a
\* unique index matching the conflict target the statement fails and the
\* fallback looks up the pending entry; with it, a pending entry of the
\* subscription is kept as it is and otherwise the row is inserted.
\* Gives the queue after the call and the id returned (0 = error).
CreateRetryEntry(s, errorCode) ==
    LET entry == [subscription_id |-> s, attempt |-> 1,
                  max_attempts |-> PolicyMaxAttempts, status |-> "pending",
                  last_error_code |-> errorCode,
                  decline_type |-> ClassifyError(errorCode),
                  next_retry_at |-> CalculateNextRetry(1), resolved |-> FALSE]
    IN IF ~pendingUniqueIndex
       THEN [queue |-> retryQueue, id |-> GetActiveRetryForSubscription(s)]
       ELSE IF EntriesOf(s, {"pending"}) # {}
       THEN [queue |-> retryQueue, id |-> GetActiveRetryForSubscription(s)]
       ELSE [queue |-> Append(retryQueue, entry), id |-> Len(retryQueue) + 1]

\* an UPDATE of entry id to row e: rejected by the partial unique index when
\* it would leave two pending entries of one subscription
UpdateEntry(id, e) ==
    IF /\ pendingUniqueIndex
       /\ e.status = "pending"
       /\ EntriesOf(e.subscription_id, {"pending"}) \ {id} # {}
    THEN retryQueue
    ELSE [retryQueue EXCEPT ![id] = e]

\* DB.UpdateRetryStatus: terminal statuses also set resolved_at
UpdateRetryStatus(id, status) ==
    UpdateEntry(id, [retryQueue[id] EXCEPT
        !.status = status,
        !.resolved = IF status \in {"succeeded", "failed", "canceled", "exhausted"}
                     THEN TRUE ELSE @])

\* DB.UpdateRetryAfterAttempt
UpdateRetryAfterAttempt(id, out) ==
    LET entry == retryQueue[id]
        newAttempt == entry.attempt + 1
    IN IF out = "ok"
       THEN UpdateEntry(id, [entry EXCEPT !.status = "succeeded", !.resolved = TRUE])
       ELSE IF newAttempt > entry.max_attempts
       THEN UpdateEntry(id, [entry EXCEPT !.status = "exhausted", !.attempt = newAttempt,
                                          !.last_error_code = out, !.resolved = TRUE])
       ELSE IF ClassifyError(out) = "hard"
       THEN UpdateEntry(id, [entry EXCEPT !.status = "failed", !.attempt = newAttempt,
                                          !.last_error_code = out,
                                          !.decline_type = "hard", !.resolved = TRUE])
       ELSE UpdateEntry(id, [entry EXCEPT !.status = "pending", !.attempt = newAttempt,
                                          !.last_error_code = out,
                                          !.decline_type = "soft",
                                          !.next_retry_at =
                                              CalculateNextRetry(newAttempt)])

\* BillingHandler.ChargeSubscription, the subscription's status after the
\* charge: a paid charge advances the period and sets active, a failed one
\* sets past_due
StatusAfterCharge(out) == IF out = "ok" THEN "active" ELSE "past_due"

\* Scheduler.run taking <-ticker.C at its select, and Scheduler.tick, lines
\* 103-139: fetch the due subscriptions (active ones whose billing date has
\* come) and the due retries (pending ones whose retry time has come).  The
\* ticker is an input: a timer tick can be ready whenever the loop is at its
\* select, and the select does not look at stopCh first.
TickFetch(subs, retries) ==
    /\ loop = "select"
    /\ batchSubs["tick"] = {} /\ batchRetries = {} /\ processing["tick"] = 0
    /\ subs \subseteq {s \in Subs : subStatus[s] = "active"}
    /\ retries \subseteq {i \in DOMAIN retryQueue : retryQueue[i].status = "pending"}
    /\ subs # {} \/ retries # {}
    /\ batchSubs' = [batchSubs EXCEPT !["tick"] = subs]
    /\ batchRetries' = retries
    /\ tickCharges' = [s \in Subs |-> 0]
    /\ UNCHANGED <<retryQueue, subStatus, processing, manualResponse,
                   pendingUniqueIndex, jobs, openJobs, loopVars, orchVars, ruleVars, billVars>>

\* Scheduler.TriggerManual: fetch the due subscriptions.
TriggerManual(subs) ==
    /\ batchSubs["manual"] = {}
    /\ subs \subseteq {s \in Subs : subStatus[s] = "active"}
    /\ subs # {}
    /\ batchSubs' = [batchSubs EXCEPT !["manual"] = subs]
    /\ UNCHANGED <<retryQueue, subStatus, batchRetries, processing,
                   tickCharges, manualResponse, pendingUniqueIndex, jobs, openJobs, loopVars, orchVars, ruleVars, billVars>>

\* Executor.ExecuteBatch for one subscription of a batch: CreateJob, then
\* ProcessJob: the charge and, on a soft failure, CreateRetryEntry.
JobStatusAfter(out, markOk, finalOk) ==
    IF finalOk THEN (IF out = "ok" THEN "completed" ELSE "failed")
    ELSE IF markOk THEN "running" ELSE "pending"

ProcessJobSteps(b, s, out, markOk, finalOk) ==
    /\ s \in batchSubs[b]
    /\ jobs < MaxJobs
    /\ jobs' = jobs + 1
    /\ openJobs' = IF JobStatusAfter(out, markOk, finalOk) \in DOMAIN openJobs
                   THEN [openJobs EXCEPT ![JobStatusAfter(out, markOk, finalOk)] = @ + 1]
                   ELSE openJobs
    /\ batchSubs' = [batchSubs EXCEPT ![b] = @ \ {s}]
    /\ subStatus' = [subStatus EXCEPT ![s] = StatusAfterCharge(out)]
    /\ IF out # "ok" /\ ClassifyError(out) = "soft"
       THEN /\ Len(CreateRetryEntry(s, out).queue) <= MaxEntries
            /\ retryQueue' = CreateRetryEntry(s, out).queue
       ELSE UNCHANGED retryQueue
    /\ tickCharges' = IF b = "tick" THEN [tickCharges EXCEPT ![s] = @ + 1]
                      ELSE tickCharges
    /\ UNCHANGED <<batchRetries, processing, manualResponse,
                   pendingUniqueIndex, loopVars, orchVars, ruleVars>>

\* ProcessJob for a charge whose answer out is given
ProcessJobDb(b, s, out, markOk, finalOk) ==
    ProcessJobSteps(b, s, out, markOk, finalOk) /\ UNCHANGED billVars

ProcessJob(b, s, out) == ProcessJobDb(b, s, out, TRUE, TRUE)

RetryNowAcceptsAny(status) == TRUE

\* Handler.RetryNow, the status it requires of the entry
RetryNowAccepts(status) == status = "pending"

\* Handler.CancelRetry, the statuses it requires of the entry
CancelAccepts(status) == status \in {"pending", "processing"}

\* Executor.ProcessRetry up to the charge: mark the entry processing.  The
\* tick processes its retries after its subscriptions; RetryNow takes an
\* entry that is pending.
ProcessRetryBegin(src, id) ==
    /\ processing[src] = 0
    /\ id \in DOMAIN retryQueue
    /\ IF src = "tick"
       THEN /\ batchSubs["tick"] = {}
            /\ id \in batchRetries
            /\ batchRetries' = batchRetries \ {id}
       ELSE /\ RetryNowAccepts(retryQueue[id].status)
            /\ UNCHANGED batchRetries
    /\ retryQueue' = UpdateRetryStatus(id, "processing")
    /\ processing' = [processing EXCEPT ![src] = id]
    /\ UNCHANGED <<subStatus, batchSubs, tickCharges, manualResponse,
                   pendingUniqueIndex, jobs, openJobs, loopVars, orchVars, ruleVars, billVars>>

\* Executor.ProcessRetry from the subscription lookup on.  out is the result
\* of the attempt: SUBSCRIPTION_ERROR when GetSubscription failed (no charge
\* is made then), else the answer of ChargeSubscription.  updateOk tells
\* whether the statements of UpdateRetryAfterAttempt reach the store; its
\* error is only logged.
ProcessRetrySteps(src, out, updateOk) ==
    /\ processing[src] # 0
    /\ LET id == processing[src]
           charged == out # "SUBSCRIPTION_ERROR"
       IN /\ retryQueue' = IF updateOk THEN UpdateRetryAfterAttempt(id, out)
                                       ELSE retryQueue
          /\ subStatus' = IF charged
                          THEN [subStatus EXCEPT ![retryQueue[id].subscription_id] =
                                   StatusAfterCharge(out)]
                          ELSE subStatus
          /\ tickCharges' =
                 IF src = "tick" /\ charged
                 THEN [tickCharges EXCEPT ![retryQueue[id].subscription_id] = @ + 1]
                 ELSE tickCharges
    /\ processing' = [processing EXCEPT ![src] = 0]
    /\ manualResponse' = IF src = "retry_now" THEN 200 ELSE manualResponse
    /\ UNCHANGED <<batchSubs, batchRetries, pendingUniqueIndex, jobs, openJobs, loopVars, orchVars, ruleVars>>

\* ProcessRetry for an attempt whose result out is given
ProcessRetryEndDb(src, out, updateOk) ==
    ProcessRetrySteps(src, out, updateOk) /\ UNCHANGED billVars

ProcessRetryEnd(src, out) == ProcessRetryEndDb(src, out, TRUE)

\* Handler.RetryNow answering without a retry: 404 for an entry that does
\* not exist, 400 for one RetryNow does not accept.  (An accepted request is
\* ProcessRetryBegin and ProcessRetryEnd of retry_now.)
RetryNowRejected(id) ==
    /\ IF id \notin DOMAIN retryQueue
       THEN manualResponse' = 404
       ELSE /\ ~RetryNowAccepts(retryQueue[id].status)
            /\ manualResponse' = 400
    /\ UNCHANGED <<retryQueue, subStatus, batchSubs, batchRetries, processing,
                   tickCharges, pendingUniqueIndex, jobs, openJobs, loopVars, orchVars, ruleVars, billVars>>

\* Handler.CancelRetry
CancelRetry(id) ==
    /\ IF id \notin DOMAIN retryQueue
       THEN /\ manualResponse' = 404
            /\ UNCHANGED retryQueue
       ELSE IF ~CancelAccepts(retryQueue[id].status)
       THEN /\ manualResponse' = 400
            /\ UNCHANGED retryQueue
       ELSE /\ retryQueue' = UpdateRetryStatus(id, "canceled")
            /\ manualResponse' = 200
    /\ UNCHANGED <<subStatus, batchSubs, batchRetries, processing,
                   tickCharges, pendingUniqueIndex, jobs, openJobs, loopVars, orchVars, ruleVars, billVars>>

\* Scheduler.Start, as main calls it: mark running and start the loop.
Start ==
    /\ ~running
    /\ loop = "new"
    /\ running' = TRUE
    /\ loop' = "select"
    /\ UNCHANGED <<retryQueue, subStatus, batchSubs, batchRetries, processing,
                   tickCharges, manualResponse, pendingUniqueIndex, jobs, openJobs,
                   stopCh, stopCall, orchVars, ruleVars, billVars>>

\* Scheduler.Stop up to wg.Wait: clear running and close stopCh.
StopSignal ==
    /\ running
    /\ running' = FALSE
    /\ stopCh' = "closed"
    /\ stopCall' = "waiting"
    /\ UNCHANGED <<retryQueue, subStatus, batchSubs, batchRetries, processing,
                   tickCharges, manualResponse, pendingUniqueIndex, jobs, openJobs,
                   loop, orchVars, ruleVars, billVars>>

\* Scheduler.run taking <-stopCh at its select: the loop returns.
RunStop ==
    /\ loop = "select"
    /\ batchSubs["tick"] = {} /\ batchRetries = {} /\ processing["tick"] = 0
    /\ stopCh = "closed"
    /\ loop' = "returned"
    /\ UNCHANGED <<retryQueue, subStatus, batchSubs, batchRetries, processing,
                   tickCharges, manualResponse, pendingUniqueIndex, jobs, openJobs,
                   running, stopCh, stopCall, orchVars, ruleVars, billVars>>

\* Scheduler.Stop from wg.Wait on: it returns once the loop has returned.
StopReturn ==
    /\ stopCall = "waiting"
    /\ loop = "returned"
    /\ stopCall' = "returned"
    /\ UNCHANGED <<retryQueue, subStatus, batchSubs, batchRetries, processing,
                   tickCharges, manualResponse, pendingUniqueIndex, jobs, openJobs,
                   running, stopCh, loop, orchVars, ruleVars, billVars>>

(***************************************************************************)
(* Rule engine (BPAS): routing rules, their evaluation, reload and update  *)
(***************************************************************************)

MaxRules == 2

\* rand.Intn(100)
RandRange == 100

\* the amount of high_value_transactions in loadDefaultConfig
HighValueAmount == 1000

\* A value of the map ConditionValue: t is its dynamic type ("missing" = no
\* such key), v what it holds.
MissingNum == [t |-> "missing", v |-> 0]
MissingStr == [t |-> "missing", v |-> ""]
MissingList == [t |-> "missing", v |-> {}]
Float64(x) == [t |-> "float64", v |-> x]
Str(x) == [t |-> "string", v |-> x]
List(xs) == [t |-> "[]interface{}", v |-> xs]
StringSlice(xs) == [t |-> "[]string", v |-> xs]

\* map[string]interface{}{}
NoCondition ==
    [amount |-> MissingNum, operator |-> MissingStr, currencies |-> MissingList,
     marketplaces |-> MissingList, tiers |-> MissingList, client_ids |-> MissingList]

RoutingRule(name, priority, type, value, target, percentage, active) ==
    [Name |-> name, Priority |-> priority, ConditionType |-> type,
     ConditionValue |-> value, TargetProcessor |-> target,
     Percentage |-> percentage, IsActive |-> active]

\* loadDefaultConfig: the rules used when the config file cannot be loaded
DefaultRules ==
    << RoutingRule("high_value_transactions", 1, "amount_threshold",
                   [NoCondition EXCEPT !.amount = Float64(HighValueAmount),
                                       !.operator = Str("greater_than")],
                   "processor_a", 100, TRUE),
       RoutingRule("euro_transactions", 2, "currency",
                   [NoCondition EXCEPT !.currencies = StringSlice({"EUR", "GBP"})],
                   "processor_b", 100, TRUE),
       RoutingRule("default_primary_split", 10, "percentage", NoCondition,
                   "processor_a", 70, TRUE),
       RoutingRule("default_secondary_split", 11, "percentage", NoCondition,
                   "processor_b", 30, TRUE) >>

\* A sort that leaves the rules in any order (variant of SortSlice).
SortSliceAnyOrder(s) ==
    LET n == Len(s)
        orders == {f \in [1..n -> 1..n] : \A i, j \in 1..n : i # j => f[i] # f[j]}
    IN {[i \in 1..n |-> s[f[i]]] : f \in orders}

\* the orders sort.Slice by Priority can leave the slice in: sort.Slice is
\* not stable, so rules of equal priority come in any order
SortSlice(s) ==
    LET n == Len(s)
        orders == {f \in [1..n -> 1..n] :
                     /\ \A i, j \in 1..n : i # j => f[i] # f[j]
                     /\ \A i, j \in 1..n : i < j => s[f[i]].Priority <= s[f[j]].Priority}
    IN {[i \in 1..n |-> s[f[i]]] : f \in orders}

\* matchesAmountThreshold: false without a float64 amount; an operator that
\* is missing or not a string counts as greater_than
MatchesAmountThreshold(r, rule) ==
    LET amount == rule.ConditionValue.amount
        op == rule.ConditionValue.operator
        operator == IF op.t = "string" THEN op.v ELSE "greater_than"
    IN IF amount.t # "float64" THEN FALSE
       ELSE CASE operator = "greater_than" -> r.Amount > amount.v
              [] operator = "less_than" -> r.Amount < amount.v
              [] operator = "equals" -> r.Amount = amount.v
              [] operator = "greater_equal" -> r.Amount >= amount.v
              [] operator = "less_equal" -> r.Amount <= amount.v
              [] OTHER -> FALSE

\* matchesCurrency, matchesMarketplace, matchesUserTier, matchesClientID:
\* the value must be a []interface{} and hold the request's string
MatchesList(val, x) == val.t = "[]interface{}" /\ x \in val.v

MatchesRule(r, rule) ==
    CASE rule.ConditionType = "amount_threshold" -> MatchesAmountThreshold(r, rule)
      [] rule.ConditionType = "currency" ->
            MatchesList(rule.ConditionValue.currencies, r.Currency)
      [] rule.ConditionType = "marketplace" ->
            MatchesList(rule.ConditionValue.marketplaces, r.Marketplace)
      [] rule.ConditionType = "user_tier" ->
            MatchesList(rule.ConditionValue.tiers, r.UserTier)
      [] rule.ConditionType = "percentage" -> TRUE
      [] rule.ConditionType = "client_id" ->
            MatchesList(rule.ConditionValue.client_ids, r.ClientID)
      [] OTHER -> FALSE

\* A draw that also passes when it equals the percentage (variant of
\* DrawPasses).
DrawPassesInclusive(d, percentage) == d <= percentage

\* rand.Intn(100) < rule.Percentage
DrawPasses(d, percentage) == d < percentage

\* A write lock that does not wait for the readers (variant of LockFree).
LockFreeIgnoringReaders(m) == ~m.writer

\* sync.RWMutex: Lock() is granted when nobody holds the mutex, RLock() when
\* no writer holds it
LockFree(m) == ~m.writer /\ m.readers = 0

RLockFree(m) == ~m.writer

\* an EvaluationRequest; the orchestrator sends amount, currency and an empty
\* marketplace
EvaluationRequest(amount, currency) ==
    [Amount |-> amount, Currency |-> currency, Marketplace |-> "",
     UserTier |-> "", ClientID |-> ""]

NoDraw == 0 - 1

\* no evaluation at work.  Of an evaluation: req is the request, idx the
\* position of the loop of evaluateRules, seen the draw made at each position
\* passed (NoDraw where none was made), snapshot the rules at RLock, status
\* the HTTP status and processor, rule, priority the EvaluationResponse
\* (rule "" = no rule matched).
EvalIdle ==
    [pc |-> "idle", req |-> EvaluationRequest(0, ""), idx |-> 0, seen |-> <<>>,
     snapshot |-> <<>>, status |-> 0, processor |-> "", rule |-> "", priority |-> 0]

\* evaluateRouting up to the RLock of evaluateRules: a negative amount is
\* answered 400, an empty currency becomes USD.
EvalBegin(amount, currency) ==
    /\ eval.pc = "idle"
    /\ IF amount < 0
       THEN /\ eval' = [EvalIdle EXCEPT !.pc = "done", !.status = 400,
                                        !.req = EvaluationRequest(amount, currency)]
            /\ UNCHANGED mu
       ELSE /\ RLockFree(mu)
            /\ mu' = [mu EXCEPT !.readers = @ + 1]
            /\ eval' = [EvalIdle EXCEPT
                          !.pc = "locked",
                          !.req = EvaluationRequest(amount,
                                     IF currency = "" THEN "USD" ELSE currency),
                          !.idx = 1,
                          !.snapshot = rules]
    /\ UNCHANGED <<rules, orchVars, retryVars, billVars>>

\* One turn of the loop of evaluateRules, on the rule at idx; d is the draw
\* rand.Intn gives if the rule asks for one.  A return releases the RLock.
EvalRule(d) ==
    /\ eval.pc = "locked"
    /\ eval.idx <= Len(rules)
    /\ LET rule == rules[eval.idx]
           taken == /\ rule.IsActive
                    /\ MatchesRule(eval.req, rule)
                    /\ rule.ConditionType = "percentage" => DrawPasses(d, rule.Percentage)
           drawn == rule.IsActive /\ rule.ConditionType = "percentage"
       IN IF taken
          THEN /\ eval' = [eval EXCEPT !.pc = "done", !.status = 200,
                                       !.seen = Append(@, IF drawn THEN d ELSE NoDraw),
                                       !.processor = rule.TargetProcessor,
                                       !.rule = rule.Name,
                                       !.priority = rule.Priority]
               /\ mu' = [mu EXCEPT !.readers = @ - 1]
          ELSE /\ eval' = [eval EXCEPT !.idx = @ + 1,
                                       !.seen = Append(@, IF drawn THEN d ELSE NoDraw)]
               /\ UNCHANGED mu
    /\ UNCHANGED <<rules, orchVars, retryVars, billVars>>

\* evaluateRules past the last rule: processor_a, no rule.
EvalFallback ==
    /\ eval.pc = "locked"
    /\ eval.idx > Len(rules)
    /\ eval' = [eval EXCEPT !.pc = "done", !.status = 200,
                            !.processor = "processor_a", !.rule = "", !.priority = 0]
    /\ mu' = [mu EXCEPT !.readers = @ - 1]
    /\ UNCHANGED <<rules, orchVars, retryVars, billVars>>

\* evaluateRouting writes the EvaluationResponse and returns.
EvalReturn ==
    /\ eval.pc = "done"
    /\ eval' = EvalIdle
    /\ UNCHANGED <<rules, mu, orchVars, retryVars, billVars>>

\* reloadConfig / loadConfig with a config file that holds the rules cfg:
\* under the write lock, sort them by priority and replace the rule list.
LoadConfig(cfg, sorted) ==
    /\ LockFree(mu)
    /\ sorted \in SortSlice(cfg)
    /\ rules' = sorted
    /\ UNCHANGED <<mu, eval, orchVars, retryVars, billVars>>

\* updateRule, first half: take the write lock and overwrite in place the
\* first rule called name (its name is kept).
UpdateAssign(name, updatedRule) ==
    /\ LockFree(mu)
    /\ \E i \in DOMAIN rules :
          /\ rules[i].Name = name
          /\ \A j \in 1..(i - 1) : rules[j].Name # name
          /\ rules' = [rules EXCEPT ![i] = [updatedRule EXCEPT !.Name = name]]
    /\ mu' = [mu EXCEPT !.writer = TRUE]
    /\ UNCHANGED <<eval, orchVars, retryVars, billVars>>

\* updateRule, second half: sort the list in place and release the lock.
UpdateSort(sorted) ==
    /\ mu.writer
    /\ sorted \in SortSlice(rules)
    /\ rules' = sorted
    /\ mu' = [mu EXCEPT !.writer = FALSE]
    /\ UNCHANGED <<eval, orchVars, retryVars, billVars>>

(***************************************************************************)
(* Subscription service: ChargeSubscription, between the scheduler and the *)
(* orchestrator                                                            *)
(***************************************************************************)

\* BillingHandler.ChargeSubscription up to the call of the orchestrator, as
\* request r of the orchestrator: read the subscription (a canceled one is
\* answered 400) and build the idempotency key from the date.  The caller
\* (kind) is a billing job of ExecuteBatch ("job"), a ProcessRetry ("retry")
\* or a caller outside the scheduler ("direct").
ChargeSubscriptionBegin(r, kind, src, s) ==
    /\ pc[r] = "idle"
    /\ billing[r] = None
    /\ subStatus[s] # "canceled"
    /\ CASE kind = "job" -> s \in batchSubs[src]
         [] kind = "retry" -> /\ processing[src] # 0
                              /\ retryQueue[processing[src]].subscription_id = s
         [] OTHER -> TRUE
    /\ billing' = [billing EXCEPT ![r] =
           [kind |-> kind, src |-> src, sub |-> s,
            entry |-> IF kind = "retry" THEN processing[src] ELSE 0,
            status |-> subStatus[s],
            key |-> IdempotencyKey(s, today),
            day |-> today,
            stage |-> "called"]]
    /\ UNCHANGED <<today, orchVars, retryVars, ruleVars>>

\* What ChargeSubscription answers for the orchestrator's response, as the
\* scheduler's executor reads it: success, or the error code.  A response
\* that is no JSON body (the 404 of an unknown payment method) is an error
\* of the orchestrator client.
ChargeOutcome(resp) ==
    IF resp.body = None THEN "ORCHESTRATOR_ERROR"
    ELSE IF resp.body.success THEN "ok"
    ELSE resp.body.error_code

\* the call behind request r has its answer from the orchestrator
Answered(r, kind) ==
    /\ billing[r] # None
    /\ billing[r].stage = "called"
    /\ billing[r].kind = kind
    /\ pc[r] = "done"

\* ChargeSubscription from the orchestrator's answer on, for a billing job,
\* and ProcessJob with that answer.
JobChargeEnd(r) ==
    /\ Answered(r, "job")
    /\ ProcessJobSteps(billing[r].src, billing[r].sub, ChargeOutcome(response[r]),
                       TRUE, TRUE)
    /\ billing' = [billing EXCEPT
           ![r].stage = "answered",
           ![r].entry = IF Len(retryQueue') > Len(retryQueue)
                        THEN Len(retryQueue') ELSE 0]
    /\ UNCHANGED today

\* ChargeSubscription from the orchestrator's answer on, for a retry, and
\* ProcessRetry with that answer.
RetryChargeEnd(r) ==
    /\ Answered(r, "retry")
    /\ processing[billing[r].src] = billing[r].entry
    /\ ProcessRetrySteps(billing[r].src, ChargeOutcome(response[r]), TRUE)
    /\ billing' = [billing EXCEPT ![r].stage = "answered"]
    /\ UNCHANGED today

\* ChargeSubscription from the orchestrator's answer on, for a caller
\* outside the scheduler: advance the period and set active, or set
\* past_due.
DirectChargeEnd(r) ==
    /\ Answered(r, "direct")
    /\ subStatus' = [subStatus EXCEPT ![billing[r].sub] =
                        StatusAfterCharge(ChargeOutcome(response[r]))]
    /\ billing' = [billing EXCEPT ![r].stage = "answered"]
    /\ UNCHANGED <<today, retryQueue, batchSubs, batchRetries, processing,
                   tickCharges, manualResponse, pendingUniqueIndex, jobs,
                   openJobs, loopVars, orchVars, ruleVars>>

\* midnight: the date becomes d
NextDay(d) ==
    /\ d = today + 1
    /\ d <= MaxDays
    /\ today' = d
    /\ UNCHANGED <<billing, orchVars, retryVars, ruleVars>>

(***************************************************************************)
(* Specifications                                                          *)
(***************************************************************************)

\* The state after construction: no request handled, both processor clients
\* healthy, empty store, cache and retry queue, every subscription active, the
\* scheduler idle.  chks and idxs are the cases of the store's schema: whether
\* chk_amount_positive is in force, and whether retry_queue has the partial
\* unique index.
Init(chks, idxs) ==
    /\ pc = [r \in Reqs |-> "idle"]
    /\ req = [r \in Reqs |-> None]
    /\ route = [r \in Reqs |-> None]
    /\ result = [r \in Reqs |-> None]
    /\ attempts = [r \in Reqs |-> {}]
    /\ response = [r \in Reqs |-> None]
    /\ arrivedAfter = [r \in Reqs |-> {}]
    /\ transactions = {}
    /\ cache = [k \in AllKeys |-> None]
    /\ healthy = [p \in Procs |-> TRUE]
    /\ procCharges = {}
    /\ events = {}
    /\ chkAmountPositive \in chks
    /\ sent = {}
    /\ refundCalls = {}
    /\ refundLog = {}
    /\ nRefunds = 0
    /\ retryQueue = <<>>
    /\ subStatus = [s \in Subs |-> "active"]
    /\ batchSubs = [b \in BatchSources |-> {}]
    /\ batchRetries = {}
    /\ processing = [src \in RetrySources |-> 0]
    /\ tickCharges = [s \in Subs |-> 0]
    /\ manualResponse = 0
    /\ jobs = 0
    /\ openJobs = [st \in {"pending", "running"} |-> 0]
    /\ running = FALSE
    /\ stopCh = "open"
    /\ loop = "new"
    /\ stopCall = "none"
    /\ pendingUniqueIndex \in idxs
    /\ rules = DefaultRules
    /\ mu = [readers |-> 0, writer |-> FALSE]
    /\ eval = EvalIdle
    /\ today = 1
    /\ billing = [r \in Reqs |-> None]

\* the steps of charge request r, which arrives once the requests in after
\* are answered; its inputs are drawn from the given sets
ChargeStep(r, after, keys, amounts, pms, answers) ==
    \/ /\ \A q \in after : pc[q] = "done"
       /\ \E k \in keys, a \in amounts, pm \in pms, bpas \in BpasOutcomes :
             ChargeBegin(r, k, a, pm, bpas)
    \/ \E out \in answers : PrimaryAttempt(r, out)
    \/ \E out \in answers : SecondaryAttempt(r, out)
    \/ Persist(r)
    \/ CacheAndRespond(r)

PositiveAmounts == 1..MaxAmount

\* The orchestrator under racing charge requests with one key and valid
\* input: the requests 1..MaxRacing arrive at any time and race each other,
\* the others arrive once those are answered.
RacingReqs == 1..MaxRacing

RaceAnswers == {"ok", "decline", "http503"}

Next ==
    \/ \E r \in Reqs :
          ChargeStep(r, IF r \in RacingReqs THEN {} ELSE RacingReqs,
                     {"k1"}, PositiveAmounts, {"pm_net"}, RaceAnswers)
    \/ \E k \in AllKeys : CacheExpire(k)
    \/ \E p \in Procs, up \in BOOLEAN : HealthProbe(p, up)

Spec == Init({TRUE}, {FALSE}) /\ [][Next]_vars

\* The orchestrator under charge requests that arrive one after the other,
\* with every input and every processor answer.
SequentialReqs == 1..MaxSequential

NextFailover ==
    \/ \E r \in SequentialReqs :
          ChargeStep(r, {q \in SequentialReqs : q < r},
                     ClientKeys, ChargeAmounts, PaymentMethodIds, ChargeAnswers)
    \/ \E k \in AllKeys : CacheExpire(k)
    \/ \E p \in Procs, up \in BOOLEAN : HealthProbe(p, up)

SpecFailover == Init(BOOLEAN, {FALSE}) /\ [][NextFailover]_vars

\* The orchestrator under charge requests that arrive one after the other,
\* and refund requests at any time.
NextRefund ==
    \/ \E r \in SequentialReqs :
          ChargeStep(r, {q \in SequentialReqs : q < r},
                     {""}, PositiveAmounts, {"pm_net"}, RaceAnswers)
    \/ \E txid \in {t.id : t \in transactions} \cup {0}, amount \in RefundAmounts,
          out \in {"nocall", "ok", "http400", "http404", "http422", "neterr"} :
          ProcessRefund(txid, amount, out)

SpecRefund == Init(BOOLEAN, {FALSE}) /\ [][NextRefund]_vars

\* The scheduler: ticks, manual triggers, RetryNow and CancelRetry requests.
NextRetry ==
    \/ Start
    \/ \E subs \in SUBSET Subs, retries \in SUBSET EntryIds : TickFetch(subs, retries)
    \/ \E subs \in SUBSET Subs : TriggerManual(subs)
    \/ \E b \in BatchSources, s \in Subs, out \in JobOutcomes : ProcessJob(b, s, out)
    \/ \E src \in RetrySources, id \in EntryIds : ProcessRetryBegin(src, id)
    \/ \E src \in RetrySources, out \in JobOutcomes : ProcessRetryEnd(src, out)
    \/ \E id \in EntryIds : RetryNowRejected(id)
    \/ \E id \in EntryIds : CancelRetry(id)

SpecRetry == Init({TRUE}, BOOLEAN) /\ [][NextRetry]_vars

\* the head of a fetched list, the lists taken in the order of the ids
LeastOf(S) == {x \in S : \A y \in S : x <= y}

\* The scheduler's ticks, one after the other, each working through its two
\* lists in order, and cancel requests at any time.
NextTick ==
    \/ Start
    \/ \E subs \in SUBSET Subs, retries \in SUBSET EntryIds : TickFetch(subs, retries)
    \/ \E s \in LeastOf(batchSubs["tick"]), out \in JobOutcomes :
          ProcessJob("tick", s, out)
    \/ \E id \in LeastOf(batchRetries) : ProcessRetryBegin("tick", id)
    \/ \E out \in JobOutcomes : ProcessRetryEnd("tick", out)
    \/ \E id \in EntryIds : CancelRetry(id)

SpecTick == Init({TRUE}, BOOLEAN) /\ [][NextTick]_vars

\* no tick is at work / no RetryNow request is at work
TickIdle == batchSubs["tick"] = {} /\ batchRetries = {} /\ processing["tick"] = 0

ManualIdle == processing["retry_now"] = 0

\* The scheduler's ticks and the manual operations: a RetryNow request is
\* accepted between ticks and no tick starts while its retry is at work;
\* cancel requests and rejected RetryNow requests come at any time.
NextManual ==
    \/ Start
    \/ \E subs \in IF ManualIdle THEN SUBSET Subs ELSE {}, retries \in SUBSET EntryIds :
          TickFetch(subs, retries)
    \/ \E s \in LeastOf(batchSubs["tick"]), out \in JobOutcomes :
          ProcessJob("tick", s, out)
    \/ \E id \in LeastOf(batchRetries) : ProcessRetryBegin("tick", id)
    \/ \E id \in IF TickIdle THEN EntryIds ELSE {} : ProcessRetryBegin("retry_now", id)
    \/ \E src \in RetrySources, out \in JobOutcomes : ProcessRetryEnd(src, out)
    \/ \E id \in EntryIds : RetryNowRejected(id)
    \/ \E id \in EntryIds : CancelRetry(id)

SpecManual == Init({TRUE}, {TRUE}) /\ [][NextManual]_vars

\* The scheduler from Start to Stop: ticks, manual triggers, and the stop
\* signal at any time.
NextScheduler ==
    \/ Start
    \/ StopSignal
    \/ RunStop
    \/ StopReturn
    \/ \E subs \in SUBSET Subs, retries \in SUBSET EntryIds : TickFetch(subs, retries)
    \/ \E subs \in SUBSET Subs : TriggerManual(subs)
    \/ \E b \in BatchSources :
          \E s \in LeastOf(batchSubs[b]), out \in JobOutcomes : ProcessJob(b, s, out)
    \/ \E id \in LeastOf(batchRetries) : ProcessRetryBegin("tick", id)
    \/ \E out \in JobOutcomes : ProcessRetryEnd("tick", out)

\* The orchestrator under charge requests that arrive one after the other,
\* for payment methods with every combination of tokens.
TokenPaymentMethodIds == {"pm_test", "pm_dual", "pm_a", "pm_empty"}

NextToken ==
    \/ \E r \in SequentialReqs :
          ChargeStep(r, {q \in SequentialReqs : q < r},
                     {""}, PositiveAmounts, TokenPaymentMethodIds, ChargeAnswers)
    \/ \E p \in Procs, up \in BOOLEAN : HealthProbe(p, up)

SpecToken == Init({TRUE}, {FALSE}) /\ [][NextToken]_vars

SpecScheduler == Init({TRUE}, {TRUE}) /\ [][NextScheduler]_vars

\* The scheduler with a store whose UpdateJobStatus calls may fail (a lost
\* connection, or the 2-minute context of the tick past its deadline).
NextJobs ==
    \/ Start
    \/ StopSignal
    \/ RunStop
    \/ StopReturn
    \/ \E subs \in SUBSET Subs, retries \in SUBSET EntryIds : TickFetch(subs, retries)
    \/ \E subs \in SUBSET Subs : TriggerManual(subs)
    \/ \E b \in BatchSources :
          \E s \in LeastOf(batchSubs[b]), out \in JobOutcomes, markOk \in BOOLEAN,
             finalOk \in BOOLEAN : ProcessJobDb(b, s, out, markOk, finalOk)
    \/ \E id \in LeastOf(batchRetries) : ProcessRetryBegin("tick", id)
    \/ \E out \in JobOutcomes : ProcessRetryEnd("tick", out)

SpecJobs == Init({TRUE}, {TRUE}) /\ [][NextJobs]_vars

\* The rule engine.  A config file holds up to MaxRules rules of a catalogue;
\* its rules are named after their place in the file.
RuleName(i) == "rule_" \o ToString(i)

Configs(catalogue) ==
    {[i \in DOMAIN cfg |-> [cfg[i] EXCEPT !.Name = RuleName(i)]] :
        cfg \in UNION {[1..n -> catalogue] : n \in 0..MaxRules}}

\* draws on both sides of the percentages in use
DrawValues == {0, 29, 30, 69, 70, RandRange - 1}

EvalAmounts == 0..MaxAmount

\* The steps of the rule engine under requests that come one after the
\* other: reloads and updates between evaluations, with rules of the given
\* catalogue, and evaluations with the given currencies and draws.
RuleNames == {RuleName(i) : i \in 1..MaxRules}

RuleStep(catalogue, configs, currencies, draws) ==
    \/ \E cfg \in IF eval.pc = "idle" THEN configs ELSE {} :
          \E sorted \in SortSlice(cfg) : LoadConfig(cfg, sorted)
    \/ \E name \in IF eval.pc = "idle" THEN RuleNames ELSE {}, rule \in catalogue :
          UpdateAssign(name, rule)
    \/ \E sorted \in SortSlice(rules) : UpdateSort(sorted)
    \/ \E a \in EvalAmounts, c \in currencies : EvalBegin(a, c)
    \/ \E d \in draws : EvalRule(d)
    \/ EvalFallback
    \/ EvalReturn

\* the priorities a rule of a catalogue can have
Priorities == {1, 2}

\* rules of every priority: a percentage rule, and an amount rule that
\* matches amounts above 0, active or not
PriorityRules ==
    {RoutingRule("", p, "percentage", NoCondition, "processor_b", 30, TRUE) :
        p \in Priorities}
    \cup
    {RoutingRule("", p, "amount_threshold",
                 [NoCondition EXCEPT !.amount = Float64(0), !.operator = Str("greater_than")],
                 "processor_b", 100, a) : p \in Priorities, a \in BOOLEAN}

PriorityConfigs == Configs(PriorityRules)

NextPriority == RuleStep(PriorityRules, PriorityConfigs, {"USD"}, {29, 30})

SpecPriority == Init({TRUE}, {FALSE}) /\ [][NextPriority]_vars

\* percentage rules of every priority
PercentageRules ==
    {RoutingRule("", p, "percentage", NoCondition, "processor_b", pct, TRUE) :
        p \in Priorities, pct \in {0, 30, RandRange}}

PercentageConfigs == Configs(PercentageRules)

NextPercentage == RuleStep(PercentageRules, PercentageConfigs, {"USD"}, DrawValues)

SpecPercentage == Init({TRUE}, {FALSE}) /\ [][NextPercentage]_vars

\* rules with well-formed and with malformed condition payloads: amount rules
\* with the amount or the operator missing or of another type, or with an
\* operator the engine does not know; currency rules with the list missing or
\* of another type; a rule of an unknown condition type
ConditionRules ==
    {RoutingRule("", 1, "amount_threshold",
                 [NoCondition EXCEPT !.amount = am, !.operator = op],
                 "processor_b", 100, TRUE) :
        am \in {Float64(0), MissingNum, [t |-> "string", v |-> 0]},
        op \in {Str("greater_than"), Str("bogus"), MissingStr,
                [t |-> "float64", v |-> ""]}}
    \cup
    {RoutingRule("", 1, "currency", [NoCondition EXCEPT !.currencies = cur],
                 "processor_b", 100, TRUE) :
        cur \in {List({"EUR"}), StringSlice({"EUR"}), MissingList}}
    \cup
    {RoutingRule("", 1, "geo", NoCondition, "processor_b", 100, TRUE)}

ConditionConfigs == Configs(ConditionRules)

NextCondition == RuleStep(ConditionRules, ConditionConfigs, {"", "USD", "EUR"}, {0})

SpecCondition == Init({TRUE}, {FALSE}) /\ [][NextCondition]_vars

\* The rule engine under an evaluation that runs while the config is
\* reloaded and rules are updated.
ReloadRules ==
    {RoutingRule("", p, "percentage", NoCondition, "processor_b", 30, TRUE) :
        p \in Priorities}

ReloadConfigs == Configs(ReloadRules)

NextReload ==
    \/ \E cfg \in ReloadConfigs :
          \E sorted \in SortSlice(cfg) : LoadConfig(cfg, sorted)
    \/ \E name \in RuleNames, rule \in ReloadRules : UpdateAssign(name, rule)
    \/ \E sorted \in SortSlice(rules) : UpdateSort(sorted)
    \/ \E a \in EvalAmounts, c \in {"USD"} : EvalBegin(a, c)
    \/ \E d \in {29, 30} : EvalRule(d)
    \/ EvalFallback
    \/ EvalReturn

SpecReload == Init({TRUE}, {FALSE}) /\ [][NextReload]_vars

\* results of a retry attempt: those of a charge, and the codes ProcessRetry
\* makes up when the subscription lookup or the charge call fails
RetryOutcomes == JobOutcomes \cup {"SUBSCRIPTION_ERROR", "CHARGE_ERROR"}

\* The scheduler's ticks, one after the other, with lookups, charge calls
\* and post-attempt updates that may fail.  Every call a tick makes is
\* bounded (the tick's 2-minute context, the 30 s timeout of the
\* subscription client), so a batch that was fetched is worked through and
\* a ProcessRetry that began returns.
NextProcessing ==
    \/ Start
    \/ \E subs \in SUBSET Subs, retries \in SUBSET EntryIds : TickFetch(subs, retries)
    \/ \E s \in LeastOf(batchSubs["tick"]), out \in JobOutcomes :
          ProcessJob("tick", s, out)
    \/ \E id \in LeastOf(batchRetries) : ProcessRetryBegin("tick", id)
    \/ \E out \in RetryOutcomes, updateOk \in BOOLEAN :
          ProcessRetryEndDb("tick", out, updateOk)

SpecProcessing ==
    /\ Init({TRUE}, BOOLEAN)
    /\ [][NextProcessing]_vars
    /\ WF_vars(\E s \in LeastOf(batchSubs["tick"]), out \in JobOutcomes :
                   ProcessJob("tick", s, out))
    /\ WF_vars(\E id \in LeastOf(batchRetries) : ProcessRetryBegin("tick", id))
    /\ WF_vars(\E out \in RetryOutcomes, updateOk \in BOOLEAN :
                   ProcessRetryEndDb("tick", out, updateOk))

\* the calls of ChargeSubscription that wait for the orchestrator
CalledReqs == {r \in Reqs : billing[r] # None /\ billing[r].stage = "called"}

\* the request a new call becomes: the next one, once no call is waiting
FreeReqs == IF CalledReqs = {} THEN LeastOf({r \in Reqs : billing[r] = None}) ELSE {}

\* the day of the call that wrote next_retry_at of entry i
LastWriteDay(i) ==
    LET days == {billing[r].day : r \in {q \in Reqs : /\ billing[q] # None
                                                       /\ billing[q].stage = "answered"
                                                       /\ billing[q].entry = i}}
    IN IF days = {} THEN 1 ELSE CHOOSE d \in days : \A e \in days : e <= d

\* GetDueRetries: the pending entries whose next_retry_at has come
DueRetries ==
    {i \in DOMAIN retryQueue :
        /\ retryQueue[i].status = "pending"
        /\ today >= LastWriteDay(i) + (retryQueue[i].next_retry_at.hours \div 24)}

BillingAnswers == {"ok", "decline"}

\* The scheduler, the subscription service and the orchestrator together,
\* over several days: the tick's billing jobs and retries and the charges of
\* callers outside the scheduler (between ticks), one ChargeSubscription call
\* at a time, each carried out by the orchestrator as a charge request.
NextBilling ==
    \/ Start
    \/ \E subs \in IF CalledReqs = {} THEN SUBSET Subs ELSE {},
          retries \in SUBSET DueRetries : TickFetch(subs, retries)
    \/ \E r \in FreeReqs, s \in LeastOf(batchSubs["tick"]) :
          ChargeSubscriptionBegin(r, "job", "tick", s)
    \/ \E id \in LeastOf(batchRetries) : ProcessRetryBegin("tick", id)
    \/ \E r \in FreeReqs, s \in Subs : ChargeSubscriptionBegin(r, "retry", "tick", s)
    \/ \E r \in FreeReqs, s \in IF TickIdle THEN Subs ELSE {} :
          ChargeSubscriptionBegin(r, "direct", "", s)
    \/ \E r \in CalledReqs :
          ChargeStep(r, {}, {billing[r].key}, PositiveAmounts, {"pm_net"}, BillingAnswers)
    \/ \E r \in Reqs : JobChargeEnd(r)
    \/ \E r \in Reqs : RetryChargeEnd(r)
    \/ \E r \in Reqs : DirectChargeEnd(r)
    \/ \E d \in IF CalledReqs = {} THEN Days ELSE {} : NextDay(d)

SpecBilling == Init({TRUE}, {TRUE}) /\ [][NextBilling]_vars

(***************************************************************************)
(* Properties                                                              *)
(***************************************************************************)

\* C1: for any two charge requests with the same idempotency key, where the
\* first completed successfully before the second arrived, the second
\* answers as a replay with a body identical to the first one's, and the
\* transactions table holds exactly one success row for the key.
C1_ReplayIdenticalToFirst ==
    \A r1 \in Reqs, r2 \in Reqs :
        (/\ r1 # r2
         /\ pc[r2] = "done"
         /\ r1 \in arrivedAfter[r2]
         /\ req[r1].key = req[r2].key
         /\ response[r1].body # None
         /\ response[r1].body.success)
        => /\ response[r2].replay
           /\ response[r2].body = response[r1].body
           /\ Cardinality({t \in RowsByKey(req[r2].key) : t.status = "success"}) = 1

\* C2: for any idempotency key, over any interleaving of the charge requests
\* carrying it, at most one charge succeeds at the processors, A and B taken
\* together.
C2_ZeroDuplicateCharges ==
    \A k \in AllKeys : Cardinality({c \in procCharges : c.key = k}) <= 1

\* C3: when two charge requests with the same key are processed
\* concurrently, at most one row is persisted for the key, and a caller that
\* was answered receives the response of the persisted row (same
\* transaction id, same outcome), not its own result.
C3_RaceLoserGetsStoredResponse ==
    \A r \in Reqs, q \in Reqs :
        (/\ r # q
         /\ pc[r] = "done" /\ pc[q] = "done"
         /\ req[r].key = req[q].key
         /\ q \notin arrivedAfter[r] /\ r \notin arrivedAfter[q]
         /\ response[r].body # None)
        => /\ Cardinality(RowsByKey(req[r].key)) <= 1
           /\ \E t \in RowsByKey(req[r].key) :
                 /\ t.id = response[r].body.transaction_id
                 /\ (t.status = "success") = response[r].body.success

C5_FailoverToHealthySecondary ==
    \A r \in Reqs :
        (/\ route[r] # None
         /\ pc[r] \in {"cache", "done"}
         /\ \E c \in attempts[r] : /\ c.proc = route[r].PrimaryProcessor
                                   /\ c.out \in {"unhealthy", "neterr", "http503"}
         /\ \E c \in attempts[r] : /\ c.proc = route[r].SecondaryProcessor
                                   /\ c.out # "unhealthy")
        => /\ RowsById(r) # {}
           /\ \A t \in RowsById(r) : t.processor_used = route[r].SecondaryProcessor
           /\ [type |-> "failover_triggered", transaction_id |-> r,
               from |-> route[r].PrimaryProcessor,
               to |-> route[r].SecondaryProcessor] \in events

\* C5, amended: if the primary's health bit is false or its charge call
\* fails in transport, and the secondary is healthy and answers the charge
\* (200 or 402), the stored row has processor_used = secondary and a
\* failover_triggered event (from primary, to secondary) was emitted.
C5_FailoverToAnsweringSecondary ==
    \A r \in Reqs :
        (/\ route[r] # None
         /\ pc[r] \in {"cache", "done"}
         /\ \E c \in attempts[r] : /\ c.proc = route[r].PrimaryProcessor
                                   /\ c.out \in {"unhealthy", "neterr", "http503"}
         /\ \E c \in attempts[r] : /\ c.proc = route[r].SecondaryProcessor
                                   /\ c.out \in {"ok", "decline"})
        => /\ RowsById(r) # {}
           /\ \A t \in RowsById(r) : t.processor_used = route[r].SecondaryProcessor
           /\ [type |-> "failover_triggered", transaction_id |-> r,
               from |-> route[r].PrimaryProcessor,
               to |-> route[r].SecondaryProcessor] \in events

\* C5, its case: a request skipped an unhealthy primary, was charged on the
\* secondary and is stored with the secondary as processor_used.
C5_Witness ==
    \E r \in Reqs :
        /\ pc[r] = "done"
        /\ route[r] # None
        /\ [proc |-> route[r].PrimaryProcessor, out |-> "unhealthy"] \in attempts[r]
        /\ [proc |-> route[r].SecondaryProcessor, out |-> "ok"] \in attempts[r]
        /\ \E t \in RowsById(r) :
              t.processor_used = route[r].SecondaryProcessor /\ t.status = "success"

\* C6: if the primary answers a charge with a 4xx status other than 402, 408
\* or 429, the secondary is not tried for that request.
C6_Other4xxIsFatal ==
    \A r \in Reqs :
        (/\ route[r] # None
         /\ \E c \in attempts[r] : /\ c.proc = route[r].PrimaryProcessor
                                   /\ c.out \in {"http400", "http422"})
        => \A c \in attempts[r] : c.proc # route[r].SecondaryProcessor

\* C7: every refund is sent to, and recorded with, the processor named in
\* the original charge's processor_used.
C7_RefundToOriginalProcessor ==
    /\ \A c \in refundCalls :
          \E t \in RowsById(c.transaction_id) : c.proc = t.processor_used
    /\ \A t \in transactions :
          t.original_transaction_id # 0 =>
              \E o \in RowsById(t.original_transaction_id) :
                  t.processor_used = o.processor_used

\* C7, its case: a charge that failed over to processor_b was refunded, the
\* refund was sent to processor_b and its row names processor_b.
C7_Witness ==
    \E c \in refundCalls :
        /\ c.proc = "processor_b"
        /\ c.out = "ok"
        /\ \E t \in transactions :
              /\ t.original_transaction_id = c.transaction_id
              /\ t.processor_used = "processor_b"

\* C8: a refund request whose amount is not in 0 < amount <= original amount
\* is rejected without a call to a processor and without a refund row.
C8_RefundAmountValidated ==
    \A l \in refundLog : \A t \in RowsById(l.transaction_id) :
        ~(0 < l.amount /\ l.amount <= t.amount)
        => /\ l.status # 200
           /\ l.out = "nocall"
           /\ \A c \in refundCalls : c.n # l.n
           /\ RowsByKey(RefundKey(l.n)) = {}

\* C9: a refund row is inserted, and the refund answered as processed, only
\* when the processor's refund call succeeded.
C9_RefundRowOnlyOnProcessorSuccess ==
    \A l \in refundLog :
        (l.status = 200 \/ RowsByKey(RefundKey(l.n)) # {}) => l.out = "ok"

\* C10: at every instant a subscription has at most one RetryEntry with
\* status pending or processing.
C10_OneActivePerSubscription ==
    \A s \in Subs : Cardinality(EntriesOf(s, ActiveStatuses)) <= 1

\* C11: no charge attempt of a retry entry is started while a previous attempt
\* of that entry is still in progress, that is, ProcessRetry never starts on
\* an entry whose status is processing, whatever the interleaving of the
\* tick's retry batch and RetryNow requests.
C11_NoAttemptWhileProcessing ==
    [][\A src \in RetrySources, id \in EntryIds :
          ProcessRetryBegin(src, id) => retryQueue[id].status # "processing"]_vars

\* C12: within one scheduler tick at most one charge is issued for any
\* subscription, the tick's subscription batch and its retry batch counted
\* together.
C12_OneChargePerTick ==
    \A s \in Subs : tickCharges[s] <= 1

\* C13: whenever a processed retry attempt fails with a hard-decline code the
\* entry moves to failed, whatever its attempt number at that moment.
C13_HardDeclineFails ==
    [][\A src \in RetrySources, out \in ErrorCodes :
          (ProcessRetryEnd(src, out) /\ out \in HardDeclines)
              => retryQueue'[processing[src]].status = "failed"]_vars

\* C14: when a processed retry attempt fails with a soft-decline code, the
\* entry returns to pending with its attempt incremented by one if the attempt
\* was below max_attempts, and moves to exhausted if it equalled max_attempts.
C14_SoftDeclineReschedules ==
    [][\A src \in RetrySources, out \in ErrorCodes \ HardDeclines :
          ProcessRetryEnd(src, out) =>
              LET old == retryQueue[processing[src]]
                  new == retryQueue'[processing[src]]
              IN /\ old.attempt < old.max_attempts =>
                        new.status = "pending" /\ new.attempt = old.attempt + 1
                 /\ old.attempt = old.max_attempts => new.status = "exhausted"]_vars

\* the n-th interval of {1 h, 24 h, 72 h}, the last one for n > 3
CadenceHours(n) == IF n = 1 THEN 1 ELSE IF n = 2 THEN 24 ELSE 72

\* C15 as stated: whenever an entry reaches attempt n, on creation (n = 1) or
\* after a soft failure (n = previous + 1), its next_retry_at is set to that
\* moment plus the n-th interval of {1 h, 24 h, 72 h}, 72 h for n > 3.
C15_CadenceEveryAttempt ==
    [][/\ \A b \in BatchSources, s \in Subs, out \in ErrorCodes :
             (ProcessJob(b, s, out) /\ Len(retryQueue') > Len(retryQueue)) =>
                 LET new == retryQueue'[Len(retryQueue')]
                 IN /\ new.attempt = 1
                    /\ new.next_retry_at = [since_attempt |-> 1, hours |-> 1]
       /\ \A src \in RetrySources, out \in ErrorCodes \ HardDeclines :
             LET old == retryQueue[processing[src]]
                 new == retryQueue'[processing[src]]
             IN (ProcessRetryEnd(src, out) /\ new.attempt = old.attempt + 1) =>
                    new.next_retry_at = [since_attempt |-> new.attempt,
                                         hours |-> CadenceHours(new.attempt)]]_vars

\* C15 amended: the cadence holds for an entry that is created or returns to
\* pending (attempt n <= max_attempts); an entry that becomes exhausted keeps
\* the next_retry_at it had.
C15_CadenceWhilePending ==
    [][/\ \A b \in BatchSources, s \in Subs, out \in ErrorCodes :
             (ProcessJob(b, s, out) /\ Len(retryQueue') > Len(retryQueue)) =>
                 LET new == retryQueue'[Len(retryQueue')]
                 IN /\ new.attempt = 1
                    /\ new.next_retry_at = [since_attempt |-> 1, hours |-> 1]
       /\ \A src \in RetrySources, out \in ErrorCodes \ HardDeclines :
             LET old == retryQueue[processing[src]]
                 new == retryQueue'[processing[src]]
             IN (ProcessRetryEnd(src, out) /\ new.attempt = old.attempt + 1) =>
                    IF new.status = "exhausted"
                    THEN new.next_retry_at = old.next_retry_at
                    ELSE /\ new.attempt <= new.max_attempts
                         /\ new.next_retry_at = [since_attempt |-> new.attempt,
                                                 hours |-> CadenceHours(new.attempt)]]_vars

\* an entry has returned to pending at attempt 3, due 72 h later
C15_Witness ==
    \E i \in DOMAIN retryQueue :
        /\ retryQueue[i].status = "pending"
        /\ retryQueue[i].attempt = 3
        /\ retryQueue[i].next_retry_at = [since_attempt |-> 3, hours |-> 72]

\* C16: soft-decline scenario.  For a due subscription whose every charge
\* fails with insufficient_funds, the first failure creates an entry with
\* attempt 1, pending, due in 1 h; the second failure (the entry's first
\* retry) moves it to attempt 2, due in 24 h; the third failure (its second
\* retry) leaves it exhausted.
C16_SoftDeclineScenario ==
    [][/\ \A b \in BatchSources, s \in Subs :
             (/\ ProcessJob(b, s, "insufficient_funds")
              /\ \A i \in DOMAIN retryQueue : retryQueue[i].subscription_id # s) =>
                 /\ Len(retryQueue') = Len(retryQueue) + 1
                 /\ LET new == retryQueue'[Len(retryQueue')]
                    IN /\ new.subscription_id = s
                       /\ new.attempt = 1
                       /\ new.status = "pending"
                       /\ new.next_retry_at = [since_attempt |-> 1, hours |-> 1]
       /\ \A src \in RetrySources :
             LET old == retryQueue[processing[src]]
                 new == retryQueue'[processing[src]]
             IN ProcessRetryEnd(src, "insufficient_funds") =>
                    /\ old.attempt = 1 =>
                           /\ new.attempt = 2
                           /\ new.status = "pending"
                           /\ new.next_retry_at = [since_attempt |-> 2, hours |-> 24]
                    /\ old.attempt = 2 => new.status = "exhausted"]_vars

\* C17: after a scheduled billing charge fails with a hard-decline code the
\* subscription has no active retry entry: none is created and an entry of
\* the subscription that was pending or processing is closed as failed.
C17_HardDeclineLeavesNoActiveEntry ==
    [][\A b \in BatchSources, s \in Subs, out \in HardDeclines \cap ErrorCodes :
          ProcessJob(b, s, out) =>
              /\ Len(retryQueue') = Len(retryQueue)
              /\ \A i \in DOMAIN retryQueue' :
                     retryQueue'[i].subscription_id = s =>
                         /\ retryQueue'[i].status \notin ActiveStatuses
                         /\ retryQueue[i].status \in ActiveStatuses =>
                                retryQueue'[i].status = "failed"]_vars

C19_NoTickAfterStopSignal ==
    [][stopCh = "closed" =>
          ~(\E subs \in SUBSET Subs, retries \in SUBSET EntryIds :
               TickFetch(subs, retries))]_vars

\* C20: once Stop has returned no new row of scheduler_jobs is created, by
\* the tick or by the manual trigger.
C20_NoJobAfterStop ==
    [][stopCall = "returned" => jobs' = jobs]_vars

\* C21: a Job moves only pending -> running -> completed or failed, and no
\* Job whose processing has ended is left in running: every such row is
\* completed, failed or still pending.
C21_NoJobLeftRunning == openJobs["running"] = 0

\* C22: graceful shutdown is bounded by the tick in flight: while Stop() waits
\* for the loop, the tick in flight finishes and no further batch is taken up,
\* so Stop() returns after at most one tick deadline.
C22_StopWaitsForInFlightTickOnly ==
    [][(stopCall = "waiting" /\ TickIdle) => TickIdle']_vars

\* C23: whenever the payment method has a network token, that network token
\* is the token of every request handed to a processor for it, on the primary
\* attempt and on the failover attempt alike, whichever processor is called.
C23_NetworkTokenPreferred ==
    \A x \in sent :
        PaymentMethods[req[x.req].pm].NetworkToken # ""
            => x.token = PaymentMethods[req[x.req].pm].NetworkToken

\* C23 witness: a payment method with all three tokens was charged on the
\* primary and, after failover, on the secondary processor.
C23_Witness ==
    \E r \in Reqs :
        /\ pc[r] = "done"
        /\ PaymentMethods[req[r].pm].NetworkToken # ""
        /\ PaymentMethods[req[r].pm].ProcessorAToken # ""
        /\ PaymentMethods[req[r].pm].ProcessorBToken # ""
        /\ \E x \in sent : x.req = r /\ x.proc = route[r].PrimaryProcessor
        /\ \E x \in sent : x.req = r /\ x.proc = route[r].SecondaryProcessor

\* C24: if the payment method has neither a network token nor a processor
\* token, the attempt fails locally: no charge request is handed to any
\* processor for it.
C24_NoChargeWithoutToken ==
    \A x \in sent :
        LET pm == PaymentMethods[req[x.req].pm]
        IN pm.NetworkToken # "" \/ pm.ProcessorAToken # "" \/ pm.ProcessorBToken # ""

\* C27: when the Rule Engine answers an evaluation with target processor T,
\* the orchestrator makes its primary charge attempt on T.
C27_PrimaryIsEngineTarget ==
    [][\A r \in SequentialReqs, k \in ClientKeys, a \in ChargeAmounts,
         pm \in PaymentMethodIds :
          /\ (ChargeBegin(r, k, a, pm, "target_a") /\ pc'[r] = "primary")
                => route'[r].PrimaryProcessor = "processor_a"
          /\ (ChargeBegin(r, k, a, pm, "target_b") /\ pc'[r] = "primary")
                => route'[r].PrimaryProcessor = "processor_b"]_vars

\* C30: every persisted refund row (status refunded) has transaction_type
\* refund, a negative amount, and an original_transaction_id that references
\* a stored charge.
C30_RefundRowFields ==
    \A t \in transactions :
        t.status = "refunded"
            => /\ t.transaction_type = "refund"
               /\ t.amount < 0
               /\ \E o \in RowsById(t.original_transaction_id) : o.status # "refunded"

\* C25: after any sequence of loads, reloads and updates, an evaluation
\* returns the first rule in ascending priority order that is active, whose
\* predicate holds and, for a percentage rule, whose draw passes: the rule
\* returned qualifies, and every rule of a smaller priority number was
\* examined and did not qualify (every rule, when no rule is returned).
C25_FirstQualifyingRuleByPriority ==
    (eval.pc = "done" /\ eval.status = 200) =>
        LET Qualified(i) ==
                /\ rules[i].IsActive
                /\ MatchesRule(eval.req, rules[i])
                /\ rules[i].ConditionType = "percentage"
                      => (eval.seen[i] # NoDraw /\ eval.seen[i] < rules[i].Percentage)
        IN /\ eval.rule # "" =>
                /\ eval.idx \in DOMAIN rules
                /\ rules[eval.idx].Name = eval.rule
                /\ rules[eval.idx].Priority = eval.priority
                /\ rules[eval.idx].TargetProcessor = eval.processor
                /\ Qualified(eval.idx)
                /\ \A i \in DOMAIN rules :
                      rules[i].Priority < eval.priority
                          => (i < eval.idx /\ ~Qualified(i))
           /\ eval.rule = "" =>
                /\ Len(eval.seen) = Len(rules)
                /\ \A i \in DOMAIN rules : ~Qualified(i)

\* C25 witness: after a reload that reordered the file's rules, an
\* evaluation returned the rule of priority 1 (second in the file) while the
\* file's first rule, of priority 2, was active and matched too.
C25_Witness ==
    /\ eval.pc = "done" /\ eval.status = 200
    /\ Len(rules) = 2
    /\ eval.rule = RuleName(2) /\ eval.idx = 1 /\ eval.priority = 1
    /\ rules[2].Name = RuleName(1) /\ rules[2].Priority = 2
    /\ rules[2].IsActive /\ rules[2].ConditionType = "amount_threshold"
    /\ MatchesRule(eval.req, rules[2])

C28_MalformedRuleNeverMatches ==
    (eval.pc = "done" /\ eval.status = 200 /\ eval.rule # "") =>
        LET rule == rules[eval.idx]
            value == rule.ConditionValue
        IN /\ rule.ConditionType = "amount_threshold" =>
                /\ value.amount.t = "float64"
                /\ value.operator.t = "string"
                /\ value.operator.v \in {"greater_than", "less_than", "equals",
                                          "greater_equal", "less_equal"}
           /\ rule.ConditionType = "currency" => value.currencies.t = "[]interface{}"

\* C29: reload and update replace the rule list atomically with respect to
\* evaluations: as long as an evaluation walks the list, the list is the
\* complete, priority-sorted list it found when it started, and no reload or
\* update is half done.
C29_EvaluationSeesOneSortedList ==
    eval.pc = "locked" =>
        /\ rules = eval.snapshot
        /\ ~mu.writer
        /\ \A i, j \in DOMAIN rules : i < j => rules[i].Priority <= rules[j].Priority

\* C29 witness: a request evaluated the list from before a reload or update
\* that was carried out before the request was answered.
C29_Witness ==
    /\ eval.pc = "done" /\ eval.status = 200
    /\ Len(eval.seen) >= 1
    /\ eval.snapshot # rules

\* C31: when the idempotency lookup of a charge request misses the cache but
\* finds the key in the transaction store, the request is answered from the
\* stored row and the cache entry of the key is populated again.
C31_DbHitBackfillsCache ==
    [][\A r \in Reqs :
          (/\ pc[r] = "idle" /\ pc'[r] = "done"
           /\ cache[req'[r].key] = None
           /\ RowsByKey(req'[r].key) # {})
          => /\ response'[r].replay
             /\ \E t \in RowsByKey(req'[r].key) :
                   /\ response'[r].body.transaction_id = t.id
                   /\ response'[r].body.success = (t.status = "success")
             /\ cache'[req'[r].key] # None]_vars

\* C32: terminal retry states are absorbing: once an entry of the retry queue
\* is succeeded, failed, canceled or exhausted, its status never changes
\* again (an entry canceled while its attempt was in flight stays canceled
\* when the attempt finishes, and a finished entry is not canceled later).
C32_TerminalStatesAbsorbing ==
    [][\A i \in DOMAIN retryQueue :
          retryQueue[i].status \in {"succeeded", "failed", "canceled", "exhausted"}
          => retryQueue'[i].status = retryQueue[i].status]_vars

\* C36: a charge that a processor rejects with a non-transport status (a 4xx
\* other than 402, 408 or 429, as for an invalid amount or a missing token)
\* leaves that processor's health bit unchanged.
C36_RejectionKeepsHealthBit ==
    [][\A r \in Reqs, p \in Procs, out \in {"http400", "http422"} :
          ([proc |-> p, out |-> out] \in attempts'[r] \ attempts[r])
          => healthy'[p] = healthy[p]]_vars

\* C38: at every instant an entry of the retry queue has resolved_at set if
\* and only if its status is terminal (succeeded, failed, canceled or
\* exhausted); a pending or processing entry carries no resolved_at.
C38_ResolvedIffTerminal ==
    \A i \in DOMAIN retryQueue :
        retryQueue[i].resolved
        <=> retryQueue[i].status \in {"succeeded", "failed", "canceled", "exhausted"}

C39_RunsChargeDisjointSubscriptions ==
    [][\A s \in Subs, b \in BatchSources :
          (s \in batchSubs[b] /\ s \notin batchSubs'[b])
          => \A o \in BatchSources \ {b} : s \notin batchSubs[o]]_vars

\* C37: every entry of the retry queue that enters processing eventually
\* leaves it, to pending or to a terminal state, also when the subscription
\* lookup, the charge call or the post-attempt update fails.
C37_ProcessingEventuallyLeft ==
    \A i \in EntryIds :
        (i \in DOMAIN retryQueue /\ retryQueue[i].status = "processing")
        ~> (i \in DOMAIN retryQueue /\ retryQueue[i].status # "processing")

\* C33: every retry attempt the scheduler executes for a soft-declined
\* subscription causes a fresh charge attempt at a processor; it is never
\* answered by idempotent replay of an earlier attempt's stored response.
C33_RetryIsFreshAttempt ==
    \A r \in Reqs :
        (billing[r] # None /\ billing[r].kind = "retry" /\ pc[r] = "done")
        => /\ ~response[r].replay
           /\ attempts[r] # {}

\* C34: a pending entry of the retry queue never leads to a charge once the
\* outstanding payment of its subscription has succeeded through another
\* path: no processor accepts a charge made for a retry of a subscription
\* that was active again when the retry's ChargeSubscription call read it.
C34_NoRetryChargeAfterPayment ==
    \A c \in procCharges :
        (billing[c.req] # None /\ billing[c.req].kind = "retry")
        => billing[c.req].status # "active"

\* C35: a scheduled charge that a processor declines with CARD_DECLINED or
\* CARD_EXPIRED, the code as the processor emits it and the orchestrator
\* passes it on, is classified as a hard decline and is never retried: an
\* entry of the retry queue with such a code is a hard decline in a terminal
\* state.
C35_CardDeclinedIsHard ==
    \A i \in DOMAIN retryQueue :
        retryQueue[i].last_error_code \in {"CARD_DECLINED", "CARD_EXPIRED"}
        => /\ retryQueue[i].decline_type = "hard"
           /\ retryQueue[i].status \notin {"pending", "processing"}

====
